---------------------------- MODULE Spec2Model ----------------------------
(***************************************************************************)
(* A model of the Kubernetes -> Calico conversion code of libcalico-go:    *)
(*   lib/backend/k8s/resources/node.go             (node client, and the   *)
(*                                                  Converter)             *)
(*   lib/backend/k8s/resources/node_conversion.go  (node annotations)      *)
(*                                                                         *)
(* Text that the code parses (CIDRs, ports, annotations) is a sequence of  *)
(* one-character strings, so that formatting and parsing are computed.     *)
(* Text that the code only assembles (selector expressions) is a string.   *)
(***************************************************************************)
EXTENDS Integers, Sequences, FiniteSets, TLC

VARIABLES
    arg,    \* the argument(s) of the call under way
    res,    \* what the call returned; Pending before it returns
    heap,   \* the Go map objects reachable from arg and res: reference -> map
    nodes   \* the Kubernetes datastore: hostname -> Node object

vars == <<arg, res, heap, nodes>>

\* A call that has not returned, and one that returned val.
Pending == [done |-> FALSE]
Returned(v) == [done |-> TRUE, panic |-> FALSE, val |-> v]
\* A call that ended in a Go panic (log.Panicf, a nil dereference).
Panicked == [done |-> TRUE, panic |-> TRUE]

\* A Go pointer (or optional value): nil, or a value.
Nil == [nil |-> TRUE]
Some(v) == [nil |-> FALSE, v |-> v]

\* Sequences over S of length at most n.
SeqUpTo(S, n) == UNION {[1..k -> S] : k \in 0..n}

Range(f) == {f[x] : x \in DOMAIN f}

Max(a, b) == IF a >= b THEN a ELSE b

\* ------------------------------------------------------------------ text

Digits == <<"0", "1", "2", "3", "4", "5", "6", "7", "8", "9">>

HexDigits == <<"0", "1", "2", "3", "4", "5", "6", "7", "8", "9", "a", "b", "c", "d", "e", "f">>

IsDigit(c) == \E i \in 1..10 : Digits[i] = c

DigitVal(c) == (CHOOSE i \in 1..10 : Digits[i] = c) - 1

\* strconv.Itoa for n >= 0.
RECURSIVE Itoa(_)
Itoa(n) == IF n < 10 THEN <<Digits[n + 1]>> ELSE Itoa(n \div 10) \o <<Digits[(n % 10) + 1]>>

\* strings.Join over strings.
RECURSIVE Join(_, _)
Join(elems, sep) ==
    IF Len(elems) = 0 THEN ""
    ELSE IF Len(elems) = 1 THEN elems[1]
    ELSE elems[1] \o sep \o Join(Tail(elems), sep)

\* Concatenation of a sequence of sequences.
RECURSIVE Flatten(_)
Flatten(ss) == IF Len(ss) = 0 THEN <<>> ELSE ss[1] \o Flatten(Tail(ss))

\* ------------------------------------------------- addresses and CIDRs
\* Go's net package, as the code uses it through lib/net: an IP is its four
\* octets, an IPNet is [IP, Mask], both IPv4.

\* net.dtoi: the decimal number s starts with; [n, i, ok], i the number of
\* characters read.  The limit is net's `big`, 0xFFFFFF.
RECURSIVE DtoiFrom(_, _, _)
DtoiFrom(s, i, n) ==
    IF i < Len(s) /\ IsDigit(s[i + 1])
    THEN LET n2 == n * 10 + DigitVal(s[i + 1]) IN
         IF n2 >= 16777215 THEN [n |-> 16777215, i |-> i, ok |-> FALSE]
         ELSE DtoiFrom(s, i + 1, n2)
    ELSE IF i = 0 THEN [n |-> 0, i |-> 0, ok |-> FALSE]
    ELSE [n |-> n, i |-> i, ok |-> TRUE]

Dtoi(s) == DtoiFrom(s, 0, 0)

\* net.parseIPv4: four decimal fields of at most 255, separated by dots.
RECURSIVE ParseIPv4From(_, _, _)
ParseIPv4From(s, i, p) ==
    IF i = 4 THEN (IF Len(s) # 0 THEN Nil ELSE Some(p))
    ELSE IF Len(s) = 0 THEN Nil
    ELSE IF i > 0 /\ s[1] # "." THEN Nil
    ELSE LET s1 == IF i > 0 THEN Tail(s) ELSE s
             d == Dtoi(s1)
         IN  IF ~d.ok \/ d.n > 255 THEN Nil
             ELSE ParseIPv4From(SubSeq(s1, d.i + 1, Len(s1)), i + 1, Append(p, d.n))

ParseIPv4(s) == ParseIPv4From(s, 0, <<>>)

\* Index of the first c in s, counted from 0; -1 when there is none.
ByteIndex(s, c) ==
    IF \E i \in 1..Len(s) : s[i] = c
    THEN (CHOOSE i \in 1..Len(s) : s[i] = c /\ \A j \in 1..(i - 1) : s[j] # c) - 1
    ELSE -1

RECURSIVE Pow2(_)
Pow2(n) == IF n = 0 THEN 1 ELSE 2 * Pow2(n - 1)

RECURSIVE And8(_, _, _)
And8(a, b, n) == IF n = 0 THEN 0 ELSE (a % 2) * (b % 2) + 2 * And8(a \div 2, b \div 2, n - 1)

\* net.CIDRMask(ones, 32).
CIDRMask(ones) ==
    [k \in 1..4 |->
        LET bits == IF ones >= 8 * k THEN 8
                    ELSE IF ones <= 8 * (k - 1) THEN 0
                    ELSE ones - 8 * (k - 1)
        IN  256 - Pow2(8 - bits)]

\* IP.Mask.
MaskIP(ip, mask) == [k \in 1..4 |-> And8(ip[k], mask[k], 8)]

\* net.ParseCIDR for IPv4 text: [err, ip, ipNet].  Anything that is not
\* "a.b.c.d/n" with 0 <= n <= 32 in decimal is a parse error.
ParseCIDR(s) ==
    LET i == ByteIndex(s, "/")
        addr == SubSeq(s, 1, i)
        mask == SubSeq(s, i + 2, Len(s))
        ip == ParseIPv4(addr)
        d == Dtoi(mask)
    IN  IF i < 0 THEN [err |-> TRUE]
        ELSE IF ip.nil \/ ~d.ok \/ d.i # Len(mask) \/ d.n < 0 \/ d.n > 32 THEN [err |-> TRUE]
        ELSE [err |-> FALSE, ip |-> ip.v,
              ipNet |-> [IP |-> MaskIP(ip.v, CIDRMask(d.n)), Mask |-> CIDRMask(d.n)]]

\* IP.String: dotted decimal.
IPString(ip) == Itoa(ip[1]) \o <<".">> \o Itoa(ip[2]) \o <<".">> \o Itoa(ip[3]) \o <<".">> \o Itoa(ip[4])

\* IPMask.String: the mask's bytes in hexadecimal, without punctuation.
IPMaskString(mask) ==
    Flatten([k \in 1..4 |-> <<HexDigits[(mask[k] \div 16) + 1], HexDigits[(mask[k] % 16) + 1]>>])

\* net.simpleMaskLength: the number of leading ones of a mask that is ones
\* followed by zeros, -1 for any other mask.
SimpleMaskLength(mask) ==
    IF \E n \in 0..32 : CIDRMask(n) = mask
    THEN CHOOSE n \in 0..32 : CIDRMask(n) = mask
    ELSE -1

\* IPNet.String.
IPNetString(ipNet) ==
    LET l == SimpleMaskLength(ipNet.Mask) IN
    IF l = -1 THEN IPString(ipNet.IP) \o <<"/">> \o IPMaskString(ipNet.Mask)
    ELSE IPString(ipNet.IP) \o <<"/">> \o Itoa(l)

\* ------------------------------------------------------------ selectors

\* apiv2.LabelOrchestrator and apiv2.LabelNamespace, apiv2.OrchestratorKubernetes.
LabelOrchestrator == "projectcalico.org/orchestrator"
LabelNamespace == "projectcalico.org/namespace"
OrchestratorKubernetes == "k8s"

SelectorNamespace == "SelectorNamespace"
SelectorPod == "SelectorPod"

\* The keys the model's label selectors use, in lexicographic (byte) order.
KeyOrder == <<"app", "role", "tier">>

KeyIndex(k) == CHOOSE i \in 1..Len(KeyOrder) : KeyOrder[i] = k

\* Go's string comparison a < b, on the keys of KeyOrder.
StrLess(a, b) == KeyIndex(a) < KeyIndex(b)

\* sort.Strings: insertion of each element into the sorted rest.
RECURSIVE InsertSorted(_, _)
InsertSorted(k, sorted) ==
    IF Len(sorted) = 0 THEN <<k>>
    ELSE IF StrLess(sorted[1], k) THEN <<sorted[1]>> \o InsertSorted(k, Tail(sorted))
    ELSE <<k>> \o sorted

RECURSIVE SortStrings(_)
SortStrings(keys) ==
    IF Len(keys) = 0 THEN <<>> ELSE InsertSorted(keys[1], SortStrings(Tail(keys)))

OrchestratorClause == LabelOrchestrator \o " == 'k8s'"

\* One matchExpressions entry: the switch on e.Operator.  The DoesNotExist
\* format has two verbs and one operand; fmt writes %!s(MISSING) for the
\* operand that is not there.
ExpressionClauses(e) ==
    LET valueList == Join(e.Values, "', '") IN
    CASE e.Operator = "In" -> <<e.Key \o " in { '" \o valueList \o "' }">>
      [] e.Operator = "NotIn" -> <<e.Key \o " not in { '" \o valueList \o "' }">>
      [] e.Operator = "Exists" -> <<"has(" \o e.Key \o ")">>
      [] e.Operator = "DoesNotExist" -> <<"! has(" \o e.Key \o "%!s(MISSING)" \o ")">>
      [] OTHER -> <<>>

\* The matchLabels clauses.  s.range is the order in which Go's range over
\* the map s.MatchLabels yields its keys on this call (unspecified by Go).
MatchLabelKeys(s) == SortStrings(s.range)

SelectorSeed_Always(selectorType) == <<OrchestratorClause>>

\* Only pod selectors are prefixed.
SelectorSeed(selectorType) ==
    IF selectorType = SelectorPod THEN <<OrchestratorClause>> ELSE <<>>

\* k8sSelectorToCalico: s is a LabelSelector
\* [MatchLabels, MatchExpressions, range].
k8sSelectorToCalico(s, selectorType) ==
    LET keys == MatchLabelKeys(s)
        labelClauses == [i \in 1..Len(keys) |->
                            keys[i] \o " == '" \o s.MatchLabels[keys[i]] \o "'"]
        exprClauses == Flatten([i \in 1..Len(s.MatchExpressions) |->
                                   ExpressionClauses(s.MatchExpressions[i])])
        selectors == SelectorSeed(selectorType) \o labelClauses \o exprClauses
    IN  Join(selectors, " && ")


\* ---------------------------------------------------- ports and protocols

\* intstr.IntOrString is [Type |-> "Int", IntVal] or [Type |-> "String", StrVal].
IntStrFromString(val) == [Type |-> "String", StrVal |-> val]

IntStrString(v) == IF v.Type = "String" THEN v.StrVal ELSE Itoa(v.IntVal)

\* kapiv1.ProtocolTCP, the value of protoTCP.
protoTCP == "TCP"

\* strings.ToLower on the protocol names the model uses.
ToLower(s) ==
    CASE s = "TCP" -> "tcp"
      [] s = "UDP" -> "udp"
      [] OTHER -> s

\* numorstring.ProtocolFromString: the protocol as a string-typed value.
ProtocolFromString(s) == [Type |-> "String", StrVal |-> s]

\* numorstring.PortFromString: all digits is a single port, which must fit
\* 16 bits; any other text the model uses is a port name.
PortFromString(s) ==
    IF Len(s) > 0 /\ \A i \in 1..Len(s) : IsDigit(s[i])
    THEN (IF Len(s) > 5 \/ Dtoi(s).n > 65535 THEN [err |-> TRUE]
          ELSE [err |-> FALSE,
                port |-> [MinPort |-> Dtoi(s).n, MaxPort |-> Dtoi(s).n, PortName |-> <<>>]])
    ELSE [err |-> FALSE, port |-> [MinPort |-> 0, MaxPort |-> 0, PortName |-> s]]

NormalizePort_ProtocolOnlyWithPort(p) ==
    IF p.Port.nil THEN [Port |-> Nil, Protocol |-> Nil]
    ELSE [Port |-> Some(IntStrFromString(IntStrString(p.Port.v))),
          Protocol |-> IF p.Protocol.nil THEN Some(protoTCP) ELSE p.Protocol]

NormalizePort_NoDefault(p) ==
    [Port |-> IF p.Port.nil THEN Nil ELSE Some(IntStrFromString(IntStrString(p.Port.v))),
     Protocol |-> p.Protocol]

\* The copy k8sRuleToCalico makes of one source port: the port as a string,
\* TCP made explicit when there is a port, the given protocol over that.
NormalizePort(p) ==
    LET port0 == [Port |-> Nil, Protocol |-> Nil]
        port1 == IF ~p.Port.nil
                 THEN [Port |-> Some(IntStrFromString(IntStrString(p.Port.v))),
                       Protocol |-> Some(protoTCP)]
                 ELSE port0
    IN  IF ~p.Protocol.nil THEN [port1 EXCEPT !.Protocol = Some(p.Protocol.v)] ELSE port1

k8sProtocolToCalico(protocol) ==
    IF ~protocol.nil THEN Some(ProtocolFromString(ToLower(protocol.v))) ELSE Nil

\* k8sPortToCalico panics on a port PortFromString rejects.
k8sPortToCalicoPanics(port) ==
    ~port.Port.nil /\ PortFromString(IntStrString(port.Port.v)).err

k8sPortToCalico(port) ==
    IF ~port.Port.nil THEN <<PortFromString(IntStrString(port.Port.v)).port>> ELSE <<>>

\* port is a pointer: Nil, or Some(NetworkPolicyPort).
k8sPortToCalicoFields(port) ==
    IF port.nil THEN [protocol |-> Nil, dstPorts |-> <<>>]
    ELSE [protocol |-> k8sProtocolToCalico(port.v.Protocol),
          dstPorts |-> k8sPortToCalico(port.v)]

\* ------------------------------------------------------------------ peers

RECURSIVE ExceptLoop_Prepend(_, _)
ExceptLoop_Prepend(except, notNets) ==
    IF Len(except) = 0 THEN notNets
    ELSE LET r == ParseCIDR(except[1]) IN
         IF r.err THEN notNets
         ELSE ExceptLoop_Prepend(Tail(except), <<IPNetString(r.ipNet)>> \o notNets)

\* The loop over peer.IPBlock.Except: it returns what it has on the first
\* exception that does not parse.
RECURSIVE ExceptLoop(_, _)
ExceptLoop(except, notNets) ==
    IF Len(except) = 0 THEN notNets
    ELSE LET r == ParseCIDR(except[1]) IN
         IF r.err THEN notNets
         ELSE ExceptLoop(Tail(except), Append(notNets, IPNetString(r.ipNet)))

ZeroPeerFields == [selector |-> "", nsSelector |-> "", nets |-> <<>>, notNets |-> <<>>]

\* peer is a pointer: Nil, or Some(NetworkPolicyPeer).  A CIDR that does not
\* parse is logged and the named results are returned as they stand.
k8sPeerToCalicoFields(peer, ns) ==
    IF peer.nil THEN ZeroPeerFields
    ELSE IF ~peer.v.PodSelector.nil
    THEN [ZeroPeerFields EXCEPT !.selector = k8sSelectorToCalico(peer.v.PodSelector.v, SelectorPod)]
    ELSE IF ~peer.v.NamespaceSelector.nil
    THEN [ZeroPeerFields EXCEPT
             !.nsSelector = k8sSelectorToCalico(peer.v.NamespaceSelector.v, SelectorNamespace),
             !.selector = LabelOrchestrator \o " == 'k8s'"]
    ELSE IF ~peer.v.IPBlock.nil
    THEN LET r == ParseCIDR(peer.v.IPBlock.v.CIDR) IN
         IF r.err THEN ZeroPeerFields
         ELSE [ZeroPeerFields EXCEPT !.nets = <<IPNetString(r.ipNet)>>,
                                     !.notNets = ExceptLoop(peer.v.IPBlock.v.Except, <<>>)]
    ELSE ZeroPeerFields

\* ------------------------------------------------------------------ rules

ZeroEntityRule ==
    [Selector |-> "", NamespaceSelector |-> "", Nets |-> <<>>, NotNets |-> <<>>, Ports |-> <<>>]

\* The rule the loop body of k8sRuleToCalico appends for one port and peer.
RuleFor(port, peer, ns, ingress) ==
    LET f == k8sPortToCalicoFields(port)
        g == k8sPeerToCalicoFields(peer, ns)
        entity == [ZeroEntityRule EXCEPT !.Selector = g.selector,
                                         !.NamespaceSelector = g.nsSelector,
                                         !.Nets = g.nets,
                                         !.NotNets = g.notNets]
    IN  IF ingress
        THEN [Action |-> "allow", Protocol |-> f.protocol,
              Source |-> entity,
              Destination |-> [ZeroEntityRule EXCEPT !.Ports = f.dstPorts]]
        ELSE [Action |-> "allow", Protocol |-> f.protocol,
              Source |-> ZeroEntityRule,
              Destination |-> [entity EXCEPT !.Ports = f.dstPorts]]

RulePeers_NoDefault(rPeers) ==
    [i \in 1..Len(rPeers) |->
        Some([NamespaceSelector |-> rPeers[i].NamespaceSelector,
              PodSelector |-> rPeers[i].PodSelector,
              IPBlock |-> rPeers[i].IPBlock])]

\* The peers k8sRuleToCalico loops over: a copy of each, or one nil.
RulePeers(rPeers) ==
    LET peers == [i \in 1..Len(rPeers) |->
                     Some([NamespaceSelector |-> rPeers[i].NamespaceSelector,
                           PodSelector |-> rPeers[i].PodSelector,
                           IPBlock |-> rPeers[i].IPBlock])]
    IN  IF Len(peers) = 0 THEN <<Nil>> ELSE peers

\* The ports k8sRuleToCalico loops over: each normalized, or one nil.
RulePorts(rPorts) ==
    LET ports == [i \in 1..Len(rPorts) |-> Some(NormalizePort(rPorts[i]))]
    IN  IF Len(ports) = 0 THEN <<Nil>> ELSE ports

k8sRuleToCalicoPanics(rPeers, rPorts, ns, ingress) ==
    \E i \in 1..Len(rPorts) : k8sPortToCalicoPanics(NormalizePort(rPorts[i]))

k8sRuleToCalico_PeersOuter(rPeers, rPorts, ns, ingress) ==
    LET peers == RulePeers(rPeers)
        ports == RulePorts(rPorts)
    IN  Flatten([j \in 1..Len(peers) |->
                    [i \in 1..Len(ports) |-> RuleFor(ports[i], peers[j], ns, ingress)]])

\* k8sRuleToCalico: ports in the outer loop, peers in the inner one.
k8sRuleToCalico(rPeers, rPorts, ns, ingress) ==
    LET peers == RulePeers(rPeers)
        ports == RulePorts(rPorts)
    IN  Flatten([i \in 1..Len(ports) |->
                    [j \in 1..Len(peers) |-> RuleFor(ports[i], peers[j], ns, ingress)]])

\* ----------------------------------------------------------------- policy

\* The K8sNetworkPolicyNamePrefix of the conversion package.
K8sNetworkPolicyNamePrefix == "knp.default."

PolicyTypeIngress == "Ingress"
PolicyTypeEgress == "Egress"

RECURSIVE BlocksToRules(_, _, _)
BlocksToRules(blocks, ns, ingress) ==
    IF Len(blocks) = 0 THEN <<>>
    ELSE k8sRuleToCalico(blocks[1].Peers, blocks[1].Ports, ns, ingress)
         \o BlocksToRules(Tail(blocks), ns, ingress)

CalculateTypes_EgressFromRules(policyTypes, egressRules) ==
    LET ingress == \E i \in 1..Len(policyTypes) : policyTypes[i] = PolicyTypeIngress
        egress == (\E i \in 1..Len(policyTypes) : policyTypes[i] = PolicyTypeEgress)
                  \/ Len(egressRules) > 0
        types == (IF ingress THEN <<PolicyTypeIngress>> ELSE <<>>)
                 \o (IF egress THEN <<PolicyTypeEgress>> ELSE <<>>)
    IN  IF Len(types) = 0 THEN <<PolicyTypeIngress>> ELSE types

\* "Calculate Types setting": the types the source lists, Ingress first, and
\* Ingress alone when it lists none.  Egress rules without the Egress type
\* are only warned about.
CalculateTypes(policyTypes, egressRules) ==
    LET ingress == \E i \in 1..Len(policyTypes) : policyTypes[i] = PolicyTypeIngress
        egress == \E i \in 1..Len(policyTypes) : policyTypes[i] = PolicyTypeEgress
        types == (IF ingress THEN <<PolicyTypeIngress>> ELSE <<>>)
                 \o (IF egress THEN <<PolicyTypeEgress>> ELSE <<>>)
    IN  IF Len(types) = 0 THEN <<PolicyTypeIngress>> ELSE types

K8sNetworkPolicyToCalicoPanics(np) ==
    \E i \in 1..Len(np.Spec.Ingress \o np.Spec.Egress) :
        LET r == (np.Spec.Ingress \o np.Spec.Egress)[i] IN
        k8sRuleToCalicoPanics(r.Peers, r.Ports, np.Namespace, TRUE)

\* K8sNetworkPolicyToCalico returns (kvp, err); every return has err nil.
K8sNetworkPolicyToCalico(np) ==
    LET policyName == K8sNetworkPolicyNamePrefix \o np.Name
        ingressRules == BlocksToRules(np.Spec.Ingress, np.Namespace, TRUE)
        egressRules == BlocksToRules(np.Spec.Egress, np.Namespace, FALSE)
        types == CalculateTypes(np.Spec.PolicyTypes, egressRules)
        policy == [Name |-> policyName,
                   Namespace |-> np.Namespace,
                   Spec |-> [Order |-> 1000,
                             Selector |-> k8sSelectorToCalico(np.Spec.PodSelector, SelectorPod),
                             IngressRules |-> ingressRules,
                             EgressRules |-> egressRules,
                             Types |-> types]]
    IN  [kvp |-> Some([Key |-> [Name |-> policyName, Namespace |-> np.Namespace,
                                Kind |-> "NetworkPolicy"],
                       Value |-> policy,
                       Revision |-> np.ResourceVersion]),
         err |-> Nil]

\* -------------------------------------------------------------- endpoints

\* The NamespaceProfileNamePrefix of the conversion package.
NamespaceProfileNamePrefix == "kns."

\* names.WorkloadEndpointIdentifiers.CalculateWorkloadEndpointName(false):
\* <node>-<orchestrator>-<pod>-<endpoint>, an error when the node or the
\* pod name is missing.
CalculateWorkloadEndpointName(wepids) ==
    IF wepids.Node = "" \/ wepids.Pod = "" THEN [err |-> TRUE]
    ELSE [err |-> FALSE,
          name |-> wepids.Node \o "-" \o wepids.Orchestrator \o "-" \o wepids.Pod
                   \o "-" \o wepids.Endpoint]

\* VethNameForWorkload: "cali" and the first 11 hexadecimal digits of the
\* SHA-1 of the name.  The digest is not computed: it is a value that is
\* the same for the same name.
VethNameForWorkload(workload) == [prefix |-> "cali", sha1hex11of |-> workload]

\* cnet.ParseCIDROrIP: the text as a CIDR, or else as an address, whose
\* network is the address itself (/32).
ParseCIDROrIP(s) ==
    LET c == ParseCIDR(s)
        ip == ParseIPv4(s)
    IN  IF ~c.err THEN c
        ELSE IF ~ip.nil
        THEN [err |-> FALSE, ip |-> ip.v, ipNet |-> [IP |-> ip.v, Mask |-> CIDRMask(32)]]
        ELSE [err |-> TRUE]

HasIPAddress_Always(pod) == TRUE

HasIPAddress(pod) == pod.Status.PodIP # <<>>

IsScheduled(pod) == pod.Spec.NodeName # ""

IsHostNetworked(pod) == pod.Spec.HostNetwork

IsValidCalicoWorkloadEndpoint(pod) == ~IsHostNetworked(pod) /\ IsScheduled(pod)

IsReadyCalicoPod(pod) == IsValidCalicoWorkloadEndpoint(pod) /\ HasIPAddress(pod)

\* Go's m[k] = v on a map value.
MapSet(m, k, v) == [x \in (DOMAIN m) \cup {k} |-> IF x = k THEN v ELSE m[x]]

\* "Map any named ports through": the named, non-zero ports of all
\* containers, TCP or UDP, in order.
RECURSIVE EndpointPortsOf(_)
EndpointPortsOf(containerPorts) ==
    IF Len(containerPorts) = 0 THEN <<>>
    ELSE LET cp == containerPorts[1]
             rest == EndpointPortsOf(Tail(containerPorts))
         IN  IF cp.Name # "" /\ cp.ContainerPort # 0
             THEN (CASE cp.Protocol = "UDP" ->
                            <<[Name |-> cp.Name, Protocol |-> ProtocolFromString("udp"),
                               Port |-> cp.ContainerPort % 65536]>> \o rest
                     [] cp.Protocol \in {"TCP", ""} ->
                            <<[Name |-> cp.Name, Protocol |-> ProtocolFromString("tcp"),
                               Port |-> cp.ContainerPort % 65536]>> \o rest
                     [] OTHER -> rest)
             ELSE rest

EndpointPorts(pod) ==
    EndpointPortsOf(Flatten([i \in 1..Len(pod.Spec.Containers) |-> pod.Spec.Containers[i].Ports]))

\* "labels := pod.Labels": the reference of the map the endpoint's labels
\* are built in; a new map only when the pod has none.
PodLabelsRef(pod, h) == IF pod.Labels.nil THEN Len(h) + 1 ELSE pod.Labels.v

\* The heap after the two label assignments.
PodLabelsHeap(pod, h) ==
    LET ref == PodLabelsRef(pod, h)
        h0 == IF pod.Labels.nil THEN Append(h, <<>>) ELSE h
        m1 == MapSet(h0[ref], LabelNamespace, pod.Namespace)
        m2 == MapSet(m1, LabelOrchestrator, OrchestratorKubernetes)
    IN  [h0 EXCEPT ![ref] = m2]

\* PodToWorkloadEndpoint on heap h: [kvp, err, heap], heap being the map
\* objects when it returns.
PodToWorkloadEndpoint(pod, h) ==
    LET profile == NamespaceProfileNamePrefix \o pod.Namespace
        wep == CalculateWorkloadEndpointName(
                   [Node |-> pod.Spec.NodeName, Orchestrator |-> OrchestratorKubernetes,
                    Endpoint |-> "eth0", Pod |-> pod.Name])
        parsed == ParseCIDROrIP(pod.Status.PodIP)
        ipNets == IF HasIPAddress(pod) THEN <<IPNetString(parsed.ipNet)>> ELSE <<>>
    IN  IF wep.err THEN [kvp |-> Nil, err |-> Some("CalculateWorkloadEndpointName"), heap |-> h]
        ELSE IF HasIPAddress(pod) /\ parsed.err
        THEN [kvp |-> Nil, err |-> Some("ParseCIDROrIP"), heap |-> h]
        ELSE [kvp |-> Some([Key |-> [Name |-> wep.name, Namespace |-> pod.Namespace,
                                     Kind |-> "WorkloadEndpoint"],
                            Value |-> [Name |-> wep.name,
                                       Namespace |-> pod.Namespace,
                                       Labels |-> PodLabelsRef(pod, h),
                                       Spec |-> [Orchestrator |-> "k8s",
                                                 Node |-> pod.Spec.NodeName,
                                                 Pod |-> pod.Name,
                                                 Endpoint |-> "eth0",
                                                 InterfaceName |-> VethNameForWorkload(wep.name),
                                                 Profiles |-> <<profile>>,
                                                 IPNetworks |-> ipNets,
                                                 Ports |-> EndpointPorts(pod)]],
                            Revision |-> pod.ResourceVersion]),
              err |-> Nil,
              heap |-> PodLabelsHeap(pod, h)]

\* --------------------------------------------------------------- profiles
\* Profile and namespace names are texts ProfileNameToNamespace takes apart,
\* so they are sequences of characters; label keys are only assembled.

\* NamespaceProfileNamePrefix, character by character.
NamespaceProfileNamePrefixChars == <<"k", "n", "s", ".">>

\* The NamespaceLabelPrefix of the conversion package.
NamespaceLabelPrefix == "pcns."

\* strings.HasPrefix and strings.TrimPrefix.
HasPrefix(s, prefix) ==
    Len(s) >= Len(prefix) /\ SubSeq(s, 1, Len(prefix)) = prefix

TrimPrefix(s, prefix) ==
    IF HasPrefix(s, prefix) THEN SubSeq(s, Len(prefix) + 1, Len(s)) ELSE s

ProfileLabels_Unprefixed(nsLabels) == nsLabels

\* "Generate the labels to apply to the profile": the loop over ns.Labels,
\* one assignment labels[NamespaceLabelPrefix+k] = v per key.
RECURSIVE ProfileLabelsFrom(_, _, _)
ProfileLabelsFrom(nsLabels, keys, labels) ==
    IF keys = {} THEN labels
    ELSE LET k == CHOOSE x \in keys : TRUE IN
         ProfileLabelsFrom(nsLabels, keys \ {k},
                           MapSet(labels, NamespaceLabelPrefix \o k, nsLabels[k]))

ProfileLabels(nsLabels) == ProfileLabelsFrom(nsLabels, DOMAIN nsLabels, <<>>)

\* apiv2.Rule{Action: apiv2.Allow}: every other field has its zero value.
AllowRule ==
    [Action |-> "allow", Protocol |-> Nil,
     Source |-> ZeroEntityRule, Destination |-> ZeroEntityRule]

NamespaceToProfile(ns) ==
    LET labels == ProfileLabels(ns.Labels)
        name == NamespaceProfileNamePrefixChars \o ns.Name
    IN  [kvp |-> Some([Key |-> [Name |-> name, Kind |-> "Profile"],
                       Value |-> [Name |-> name,
                                  CreationTimestamp |-> ns.CreationTimestamp,
                                  UID |-> ns.UID,
                                  Spec |-> [IngressRules |-> <<AllowRule>>,
                                            EgressRules |-> <<AllowRule>>,
                                            LabelsToApply |-> labels]],
                       Revision |-> ns.ResourceVersion]),
         err |-> Nil]

ProfileNameToNamespace(profileName) ==
    IF ~HasPrefix(profileName, NamespaceProfileNamePrefixChars)
    THEN [name |-> <<>>, err |-> Some("not backed by a Namespace")]
    ELSE [name |-> TrimPrefix(profileName, NamespaceProfileNamePrefixChars), err |-> Nil]

\* ------------------------------------------------------------------ nodes
\* node_conversion.go, lines 27-90, and the node client of node.go.

AnnotationIPv4Address == "projectcalico.org/IPv4Address"
AnnotationASNumber == "projectcalico.org/ASNumber"

\* numorstring.ASNumber.String: the number in decimal.
ASNumberString(asn) == Itoa(asn)

\* numorstring.ASNumberFromString, for the texts the model stores: a decimal
\* number, or an error.
ASNumberFromString(s) ==
    IF Len(s) > 0 /\ Len(s) <= 7 /\ \A i \in 1..Len(s) : IsDigit(s[i])
    THEN [err |-> FALSE, asn |-> Dtoi(s).n]
    ELSE [err |-> TRUE]

\* K8sNodeToCalico: (kvp, err).  An annotation that is absent leaves its
\* fields nil; one that does not parse is an error.
K8sNodeToCalico(node) ==
    LET annotations == node.Annotations
        hasCidr == AnnotationIPv4Address \in DOMAIN annotations
        c == ParseCIDR(annotations[AnnotationIPv4Address])
        hasAsn == AnnotationASNumber \in DOMAIN annotations
        a == ASNumberFromString(annotations[AnnotationASNumber])
        calicoNode == [FelixIPv4 |-> IF hasCidr THEN Some(c.ip) ELSE Nil,
                       BGPIPv4Addr |-> IF hasCidr THEN Some(c.ip) ELSE Nil,
                       BGPIPv4Net |-> IF hasCidr THEN Some(c.ipNet) ELSE Nil,
                       BGPASNumber |-> IF hasAsn THEN Some(a.asn) ELSE Nil,
                       Labels |-> <<>>]
    IN  IF hasCidr /\ c.err THEN [kvp |-> Nil, err |-> Some("ParseCIDR")]
        ELSE IF hasAsn /\ a.err THEN [kvp |-> Nil, err |-> Some("ASNumberFromString")]
        ELSE [kvp |-> Some([Key |-> [Hostname |-> node.Name],
                            Revision |-> node.ResourceVersion,
                            Value |-> calicoNode]),
              err |-> Nil]

\* MakeK8sNode dereferences BGPIPv4Net and BGPIPv4Addr.
MakeK8sNodePanics(kvp, node) == kvp.Value.BGPIPv4Net.nil \/ kvp.Value.BGPIPv4Addr.nil

\* ipCidr: Sprintf("%s/%s", BGPIPv4Addr.String(), BGPIPv4Net.Mask.String()).
IPv4AddressAnnotation(calicoNode) ==
    IPString(calicoNode.BGPIPv4Addr.v) \o <<"/">> \o IPMaskString(calicoNode.BGPIPv4Net.v.Mask)

RECURSIVE MergeLabels(_, _, _)
MergeLabels(labels, from, keys) ==
    IF keys = {} THEN labels
    ELSE LET k == CHOOSE x \in keys : TRUE IN
         MergeLabels(MapSet(labels, k, from[k]), from, keys \ {k})

\* MakeK8sNode: the Kubernetes node with the Calico node's values pushed in.
MakeK8sNode(kvp, node) ==
    LET calicoNode == kvp.Value
        a1 == MapSet(node.Annotations, AnnotationIPv4Address, IPv4AddressAnnotation(calicoNode))
        a2 == IF ~calicoNode.BGPASNumber.nil
              THEN MapSet(a1, AnnotationASNumber, ASNumberString(calicoNode.BGPASNumber.v))
              ELSE a1
    IN  [node EXCEPT !.Annotations = a2,
                     !.Labels = MergeLabels(node.Labels, calicoNode.Labels, DOMAIN calicoNode.Labels)]

\* The datastore's Nodes().Get: the node, or a not-found error.
NodesGet(store, hostname) ==
    IF hostname \in DOMAIN store THEN [node |-> Some(store[hostname]), err |-> Nil]
    ELSE [node |-> Nil, err |-> Some("NotFound")]

\* The datastore's Nodes().Update: the node stored under a new resource
\* version.  There is no other writer, so the write is not refused.
NodesUpdate(store, node) ==
    LET newNode == [node EXCEPT !.ResourceVersion = node.ResourceVersion + 1] IN
    [store |-> [store EXCEPT ![node.Name] = newNode], node |-> newNode]

\* nodeClient.Update on datastore `store`: [panic, kvp, err, store].
NodeClientUpdate(kvp, store) ==
    LET old == NodesGet(store, kvp.Key.Hostname) IN
    IF ~old.err.nil THEN [panic |-> FALSE, kvp |-> Nil, err |-> old.err, store |-> store]
    ELSE IF MakeK8sNodePanics(kvp, old.node.v)
    THEN [panic |-> TRUE, kvp |-> Nil, err |-> Nil, store |-> store]
    ELSE LET up == NodesUpdate(store, MakeK8sNode(kvp, old.node.v))
             back == K8sNodeToCalico(up.node)
         IN  [panic |-> FALSE, kvp |-> back.kvp, err |-> back.err, store |-> up.store]

\* nodeClient.Get: a node whose annotations do not parse is a panic.
NodeClientGet(key, store) ==
    LET got == NodesGet(store, key.Hostname) IN
    IF ~got.err.nil
    THEN [panic |-> FALSE, kvp |-> Nil, err |-> Some("ErrorResourceDoesNotExist")]
    ELSE IF ~K8sNodeToCalico(got.node.v).err.nil
    THEN [panic |-> TRUE, kvp |-> Nil, err |-> Nil]
    ELSE [panic |-> FALSE, kvp |-> K8sNodeToCalico(got.node.v).kvp, err |-> Nil]

\* errors.ErrorOperationNotSupported{Identifier, Operation}, by its operation.
ErrorOperationNotSupported(operation) ==
    "ErrorOperationNotSupported{" \o operation \o "}"

\* The type assertion err.(errors.ErrorResourceDoesNotExist) of Apply.
IsErrorResourceDoesNotExist(err) == err = "ErrorResourceDoesNotExist"

\* nodeClient.Create and nodeClient.Delete: not supported, the datastore is
\* not called.
NodeClientCreate(kvp, store) ==
    [panic |-> FALSE, kvp |-> Nil,
     err |-> Some(ErrorOperationNotSupported("Create")), store |-> store]

NodeClientDelete(kvp, store) ==
    [panic |-> FALSE, kvp |-> Nil,
     err |-> Some(ErrorOperationNotSupported("Delete")), store |-> store]

\* nodeClient.Apply: Update, and Create when the error of Update is an
\* ErrorResourceDoesNotExist.
NodeClientApply(kvp, store) ==
    LET r == NodeClientUpdate(kvp, store) IN
    IF r.panic THEN r
    ELSE IF ~r.err.nil
    THEN IF ~IsErrorResourceDoesNotExist(r.err.v)
         THEN [panic |-> FALSE, kvp |-> Nil, err |-> r.err, store |-> r.store]
         ELSE NodeClientCreate(kvp, r.store)
    ELSE [panic |-> FALSE, kvp |-> r.kvp, err |-> Nil, store |-> r.store]

\* ===================================================== specifications
\* Each specification draws the argument of one conversion from a bounded
\* set and applies the conversion to it.

MaxExcept == 2
MaxPeers == 2
MaxPorts == 2
MaxBlocks == 2

\* CIDR texts: well-formed ones (two with host bits set) and malformed ones
\* (a prefix length over 32, no prefix length).
Cidr_10_8 == <<"1", "0", ".", "0", ".", "0", ".", "0", "/", "8">>
Cidr_192_168_1_7_24 == <<"1", "9", "2", ".", "1", "6", "8", ".", "1", ".", "7", "/", "2", "4">>
Cidr_10_33 == <<"1", "0", ".", "0", ".", "0", ".", "0", "/", "3", "3">>
Cidr_10_1_16 == <<"1", "0", ".", "1", ".", "0", ".", "0", "/", "1", "6">>
Cidr_10_2_3_4_16 == <<"1", "0", ".", "2", ".", "3", ".", "4", "/", "1", "6">>
Cidr_10_3 == <<"1", "0", ".", "3", ".", "0", ".", "0">>

BlockCIDRs == {Cidr_10_8, Cidr_192_168_1_7_24, Cidr_10_33}
ExceptCIDRs == {Cidr_10_1_16, Cidr_10_2_3_4_16, Cidr_10_3}

WellFormed(cidr) == ~ParseCIDR(cidr).err

\* A few selectors for peers and policies.
SelEmpty == [MatchLabels |-> <<>>, MatchExpressions |-> <<>>, range |-> <<>>]
SelWeb == [MatchLabels |-> [k \in {"app"} |-> "web"], MatchExpressions |-> <<>>,
           range |-> <<"app">>]
SelTier == [MatchLabels |-> <<>>,
            MatchExpressions |-> <<[Key |-> "tier", Operator |-> "In", Values |-> <<"a", "b">>]>>,
            range |-> <<>>]
PeerSelectors == {SelEmpty, SelWeb, SelTier}

NoPeer == [PodSelector |-> Nil, NamespaceSelector |-> Nil, IPBlock |-> Nil]
PodPeer(s) == [NoPeer EXCEPT !.PodSelector = Some(s)]
NamespacePeer(s) == [NoPeer EXCEPT !.NamespaceSelector = Some(s)]
IPBlockPeer(cidr, except) == [NoPeer EXCEPT !.IPBlock = Some([CIDR |-> cidr, Except |-> except])]

\* Peers with at most one of the three fields set, as the Kubernetes API
\* admits them.
Peers ==
    {NoPeer}
    \cup {PodPeer(s) : s \in PeerSelectors}
    \cup {NamespacePeer(s) : s \in PeerSelectors}
    \cup {IPBlockPeer(c, e) : c \in BlockCIDRs, e \in SeqUpTo(ExceptCIDRs, MaxExcept)}

HasMalformedCIDR(peer) ==
    /\ ~peer.IPBlock.nil
    /\ \/ ~WellFormed(peer.IPBlock.v.CIDR)
       \/ \E i \in 1..Len(peer.IPBlock.v.Except) : ~WellFormed(peer.IPBlock.v.Except[i])

Namespaces == {"default", "prod"}

PortHttp == <<"h", "t", "t", "p">>
PortValues == {Nil, Some([Type |-> "Int", IntVal |-> 80]), Some([Type |-> "String", StrVal |-> PortHttp])}
ProtocolValues == {Nil, Some("TCP"), Some("UDP")}
Ports == {[Port |-> p, Protocol |-> q] : p \in PortValues, q \in ProtocolValues}

\* ---- k8sPeerToCalicoFields

InitPeer ==
    /\ arg \in {[peer |-> p, ns |-> n] : p \in {Nil} \cup {Some(x) : x \in Peers}, n \in Namespaces}
    /\ res = Pending
    /\ heap = <<>>
    /\ nodes = <<>>

ClassifyPeer ==
    /\ res = Pending
    /\ res' = Returned(k8sPeerToCalicoFields(arg.peer, arg.ns))
    /\ UNCHANGED <<arg, heap, nodes>>

NextPeer == ClassifyPeer

SpecPeer == InitPeer /\ [][NextPeer]_vars

\* The network a well-formed CIDR text names, as text.
NormalizedCIDR(cidr) == IPNetString(ParseCIDR(cidr).ipNet)

\* C6: an unset peer gives four empty outputs; a pod selector gives only
\* selector; a namespace selector gives namespaceSelector compiled in
\* namespace kind and selector equal to the orchestrator clause; a
\* well-formed IP block with k exceptions gives nets = [the block's CIDR] and
\* notNets = the k exceptions' CIDRs in source order.
C6_PeerClassification ==
    (res.done /\ ~arg.peer.nil) =>
        LET peer == arg.peer.v
            out == res.val
        IN  /\ (peer = NoPeer) => out = ZeroPeerFields
            /\ (~peer.PodSelector.nil) =>
                   /\ out.selector # ""
                   /\ out.selector = k8sSelectorToCalico(peer.PodSelector.v, SelectorPod)
                   /\ out.nsSelector = "" /\ out.nets = <<>> /\ out.notNets = <<>>
            /\ (~peer.NamespaceSelector.nil) =>
                   /\ out.nsSelector = k8sSelectorToCalico(peer.NamespaceSelector.v, SelectorNamespace)
                   /\ out.selector = OrchestratorClause
                   /\ out.nets = <<>> /\ out.notNets = <<>>
            /\ (~peer.IPBlock.nil /\ ~HasMalformedCIDR(peer)) =>
                   /\ out.nets = <<NormalizedCIDR(peer.IPBlock.v.CIDR)>>
                   /\ Len(out.notNets) = Len(peer.IPBlock.v.Except)
                   /\ \A i \in 1..Len(peer.IPBlock.v.Except) :
                          out.notNets[i] = NormalizedCIDR(peer.IPBlock.v.Except[i])
                   /\ out.selector = "" /\ out.nsSelector = ""

C6_Witness ==
    /\ res.done
    /\ ~arg.peer.nil
    /\ ~arg.peer.v.IPBlock.nil
    /\ ~HasMalformedCIDR(arg.peer.v)
    /\ Len(arg.peer.v.IPBlock.v.Except) = 2
    /\ arg.peer.v.IPBlock.v.Except[1] # arg.peer.v.IPBlock.v.Except[2]
    /\ Len(res.val.notNets) = 2

\* The selectors SpecSelector draws from.
MaxExprs == 2

LabelKeys == {"app", "role"}
LabelValues == {"web", "db"}
ExprValues == {<<"a">>, <<"a", "b">>}

LabelMaps == UNION {[D -> LabelValues] : D \in SUBSET LabelKeys}

AllOrders(S) == {p \in [1..Cardinality(S) -> S] : Range(p) = S}

Expressions ==
    {[Key |-> "tier", Operator |-> op, Values |-> v] : op \in {"In", "NotIn"}, v \in ExprValues}
    \cup {[Key |-> "tier", Operator |-> op, Values |-> <<>>] : op \in {"Exists", "DoesNotExist"}}

LabelSelectors ==
    {[MatchLabels |-> m, MatchExpressions |-> es, range |-> r] :
        m \in LabelMaps, es \in SeqUpTo(Expressions, MaxExprs),
        r \in UNION {AllOrders(DOMAIN mm) : mm \in LabelMaps}}

SelectorInputs ==
    {[s |-> s, selectorType |-> t] :
        s \in {x \in LabelSelectors : Range(x.range) = DOMAIN x.MatchLabels},
        t \in {SelectorNamespace, SelectorPod}}

InitSelector ==
    /\ arg \in SelectorInputs
    /\ res = Pending
    /\ heap = <<>>
    /\ nodes = <<>>

CompileSelector ==
    /\ res = Pending
    /\ res' = Returned(k8sSelectorToCalico(arg.s, arg.selectorType))
    /\ UNCHANGED <<arg, heap, nodes>>

NextSelector == CompileSelector

SpecSelector == InitSelector /\ [][NextSelector]_vars

\* The clause the specification gives for one set-operator expression.
C8_ExpressionClause(e) ==
    LET valueList == Join(e.Values, "', '") IN
    CASE e.Operator = "In" -> e.Key \o " in { '" \o valueList \o "' }"
      [] e.Operator = "NotIn" -> e.Key \o " not in { '" \o valueList \o "' }"
      [] e.Operator = "Exists" -> "has(" \o e.Key \o ")"
      [] e.Operator = "DoesNotExist" -> "! has(" \o e.Key \o ")"

C8_Clauses(s, selectorType) ==
    LET keys == SelectSeq(KeyOrder, LAMBDA k : k \in DOMAIN s.MatchLabels) IN
    (IF selectorType = SelectorPod THEN <<OrchestratorClause>> ELSE <<>>)
    \o [i \in 1..Len(keys) |-> keys[i] \o " == '" \o s.MatchLabels[keys[i]] \o "'"]
    \o [i \in 1..Len(s.MatchExpressions) |-> C8_ExpressionClause(s.MatchExpressions[i])]

\* C8: the compiled selector is the " && "-join of the orchestrator clause
\* (pod kind only), the exact-match clauses in lexicographic key order and
\* one clause per expression in source order, with In, NotIn, Exists and
\* DoesNotExist written `key in {...}`, `key not in {...}`, `has(key)` and
\* `! has(key)`; the map's iteration order does not show in the output.
C8_SelectorAsSpecified ==
    res.done => res.val = Join(C8_Clauses(arg.s, arg.selectorType), " && ")

\* The same statement without the DoesNotExist operator, which is where the
\* code departs from it.
C8_SelectorAsSpecifiedOtherOperators ==
    (res.done /\ \A i \in 1..Len(arg.s.MatchExpressions) :
                          arg.s.MatchExpressions[i].Operator # "DoesNotExist")
        => res.val = Join(C8_Clauses(arg.s, arg.selectorType), " && ")

EmptyLabelMatch(s) == DOMAIN s.MatchLabels = {} /\ s.MatchExpressions = <<>>

\* C9 as stated: an empty LabelMatch compiles to the empty string.
C9_EmptyGivesEmptyString ==
    (res.done /\ EmptyLabelMatch(arg.s)) => res.val = ""

\* C9 as amended: an empty LabelMatch compiles to the empty string for a
\* namespace selector, and to the orchestrator clause alone for a pod
\* selector.
C9_EmptyByKind ==
    (res.done /\ EmptyLabelMatch(arg.s)) =>
        res.val = (IF arg.selectorType = SelectorPod THEN OrchestratorClause ELSE "")

C9_Witness ==
    /\ res.done
    /\ EmptyLabelMatch(arg.s)
    /\ arg.selectorType = SelectorNamespace
    /\ res.val = ""


\* ---- k8sRuleToCalico

RulePeerSet == {NoPeer, PodPeer(SelWeb), IPBlockPeer(Cidr_10_8, <<Cidr_10_1_16>>)}

\* Every port shape: with and without port, protocol none, UDP, and TCP
\* given explicitly with one port.
RulePortSet ==
    {p \in Ports : p.Protocol = Some("TCP") => p.Port = Some([Type |-> "Int", IntVal |-> 80])}

InitRule ==
    /\ arg \in {[rPeers |-> a, rPorts |-> b, ns |-> "default", ingress |-> i] :
                   a \in SeqUpTo(RulePeerSet, MaxPeers),
                   b \in SeqUpTo(RulePortSet, MaxPorts),
                   i \in BOOLEAN}
    /\ res = Pending
    /\ heap = <<>>
    /\ nodes = <<>>

ExpandRule ==
    /\ res = Pending
    /\ res' = IF k8sRuleToCalicoPanics(arg.rPeers, arg.rPorts, arg.ns, arg.ingress)
              THEN Panicked
              ELSE Returned(k8sRuleToCalico(arg.rPeers, arg.rPorts, arg.ns, arg.ingress))
    /\ UNCHANGED <<arg, heap, nodes>>

NextRule == ExpandRule

SpecRule == InitRule /\ [][NextRule]_vars

\* C2: a block with p ports and q peers expands to exactly
\* max(p,1) * max(q,1) rules, identical ports or peers included.
C2_RuleCount ==
    (res.done /\ ~res.panic) =>
        Len(res.val) = Max(Len(arg.rPorts), 1) * Max(Len(arg.rPeers), 1)

C2_Witness ==
    /\ res.done /\ ~res.panic
    /\ Len(arg.rPorts) = 2 /\ arg.rPorts[1] = arg.rPorts[2]
    /\ Len(arg.rPeers) = 2 /\ arg.rPeers[1] = arg.rPeers[2]
    /\ Len(res.val) = 4
    /\ res.val[1] = res.val[4]

\* The rules emitted for the i-th source port: ports are the outer loop.
RulesOfPort(rules, i, nPeers) ==
    {rules[(i - 1) * Max(nPeers, 1) + j] : j \in 1..Max(nPeers, 1)}

\* The destination port a source port value stands for.
C4_PortOf(v) ==
    IF v.Type = "Int" THEN [MinPort |-> v.IntVal, MaxPort |-> v.IntVal, PortName |-> <<>>]
    ELSE [MinPort |-> 0, MaxPort |-> 0, PortName |-> v.StrVal]

\* C4: a source port with a port and no protocol gives rules with protocol
\* tcp and that one destination port; with a protocol too, the protocol is
\* the given one in lower case; with neither, no protocol and no ports.
C4_PortDefaultTCP ==
    (res.done /\ ~res.panic) =>
        \A i \in 1..Len(arg.rPorts) : \A r \in RulesOfPort(res.val, i, Len(arg.rPeers)) :
            LET p == arg.rPorts[i] IN
            /\ (~p.Port.nil /\ p.Protocol.nil) =>
                   /\ r.Protocol = Some(ProtocolFromString("tcp"))
                   /\ r.Destination.Ports = <<C4_PortOf(p.Port.v)>>
            /\ (~p.Port.nil /\ ~p.Protocol.nil) =>
                   /\ r.Protocol = Some(ProtocolFromString(ToLower(p.Protocol.v)))
                   /\ r.Destination.Ports = <<C4_PortOf(p.Port.v)>>
            /\ (p.Port.nil /\ p.Protocol.nil) =>
                   /\ r.Protocol = Nil
                   /\ r.Destination.Ports = <<>>

C4_Witness ==
    /\ res.done /\ ~res.panic
    /\ Len(arg.rPorts) = 2
    /\ ~arg.rPorts[1].Port.nil /\ arg.rPorts[1].Protocol.nil
    /\ arg.rPorts[2] = [Port |-> Some([Type |-> "Int", IntVal |-> 80]), Protocol |-> Some("UDP")]
    /\ res.val[1].Protocol = Some(ProtocolFromString("tcp"))
    /\ res.val[Len(res.val)].Protocol = Some(ProtocolFromString("udp"))

\* C5 as stated: a source port without a port gives rules with no protocol
\* and no destination ports, whatever protocol the source carries.
C5_NoPortGivesNothing ==
    (res.done /\ ~res.panic) =>
        \A i \in 1..Len(arg.rPorts) : \A r \in RulesOfPort(res.val, i, Len(arg.rPeers)) :
            arg.rPorts[i].Port.nil => (r.Protocol = Nil /\ r.Destination.Ports = <<>>)

\* C5 as amended: a source port without a port gives rules with no
\* destination ports, and with the source's protocol in lower case when it
\* carries one, no protocol when it carries none.
C5_NoPortKeepsProtocol ==
    (res.done /\ ~res.panic) =>
        \A i \in 1..Len(arg.rPorts) : \A r \in RulesOfPort(res.val, i, Len(arg.rPeers)) :
            LET p == arg.rPorts[i] IN
            p.Port.nil =>
                /\ r.Destination.Ports = <<>>
                /\ r.Protocol = (IF p.Protocol.nil THEN Nil
                                 ELSE Some(ProtocolFromString(ToLower(p.Protocol.v))))

C5_Witness ==
    /\ res.done /\ ~res.panic
    /\ arg.rPorts = <<[Port |-> Nil, Protocol |-> Some("UDP")]>>
    /\ Len(res.val) > 0
    /\ res.val[1].Protocol = Some(ProtocolFromString("udp"))
    /\ res.val[1].Destination.Ports = <<>>


\* ---- K8sNetworkPolicyToCalico

Port80 == [Port |-> Some([Type |-> "Int", IntVal |-> 80]), Protocol |-> Nil]
PortUDP == [Port |-> Nil, Protocol |-> Some("UDP")]

\* Blocks of a policy: (Peers, Ports) is (From, Ports) of an ingress rule and
\* (To, Ports) of an egress rule.  The last two hold a malformed CIDR, as
\* the block's CIDR and as its second exception.
PolicyBlocks ==
    {[Peers |-> <<>>, Ports |-> <<>>],
     [Peers |-> <<PodPeer(SelWeb)>>, Ports |-> <<Port80>>],
     [Peers |-> <<IPBlockPeer(Cidr_10_33, <<>>)>>, Ports |-> <<>>],
     [Peers |-> <<IPBlockPeer(Cidr_10_8, <<Cidr_10_1_16, Cidr_10_3>>)>>, Ports |-> <<PortUDP>>]}

PolicyTypeLists ==
    {<<>>, <<PolicyTypeIngress>>, <<PolicyTypeEgress>>,
     <<PolicyTypeIngress, PolicyTypeEgress>>, <<PolicyTypeEgress, PolicyTypeIngress>>}

NetworkPolicies ==
    {[Name |-> "np1", Namespace |-> "default", ResourceVersion |-> "1",
      Spec |-> [PodSelector |-> s, Ingress |-> i, Egress |-> e, PolicyTypes |-> ts]] :
        s \in {SelEmpty, SelWeb},
        i \in SeqUpTo(PolicyBlocks, MaxBlocks),
        e \in SeqUpTo(PolicyBlocks, MaxBlocks),
        ts \in PolicyTypeLists}

InitPolicy ==
    /\ arg \in {[np |-> np] : np \in NetworkPolicies}
    /\ res = Pending
    /\ heap = <<>>
    /\ nodes = <<>>

ConvertPolicy ==
    /\ res = Pending
    /\ res' = IF K8sNetworkPolicyToCalicoPanics(arg.np) THEN Panicked
              ELSE Returned(K8sNetworkPolicyToCalico(arg.np))
    /\ UNCHANGED <<arg, heap, nodes>>

NextPolicy == ConvertPolicy

SpecPolicy == InitPolicy /\ [][NextPolicy]_vars

PolicyHasMalformedCIDR(np) ==
    \E i \in 1..Len(np.Spec.Ingress \o np.Spec.Egress) :
        LET r == (np.Spec.Ingress \o np.Spec.Egress)[i] IN
        \E j \in 1..Len(r.Peers) : HasMalformedCIDR(r.Peers[j])

\* C1: for a policy with an IP-block peer whose CIDR, or one of whose
\* exception CIDRs, is malformed, K8sNetworkPolicyToCalico returns a failure
\* and no policy object.
C1_ParseFailurePropagates ==
    (res.done /\ PolicyHasMalformedCIDR(arg.np)) =>
        /\ ~res.panic
        /\ ~res.val.err.nil
        /\ res.val.kvp.nil

\* C3: the output types are never empty, are Ingress alone when the source
\* lists no type, and hold Egress exactly when the source lists Egress.
C3_Types ==
    (res.done /\ ~res.panic /\ ~res.val.kvp.nil) =>
        LET types == res.val.kvp.v.Value.Spec.Types
            src == arg.np.Spec.PolicyTypes
        IN  /\ Len(types) > 0
            /\ (Len(src) = 0) => types = <<PolicyTypeIngress>>
            /\ (PolicyTypeEgress \in Range(types)) <=> (PolicyTypeEgress \in Range(src))

C3_Witness ==
    /\ res.done /\ ~res.panic /\ ~res.val.kvp.nil
    /\ Len(arg.np.Spec.Egress) > 0
    /\ Len(res.val.kvp.v.Value.Spec.EgressRules) > 0
    /\ PolicyTypeEgress \notin Range(arg.np.Spec.PolicyTypes)
    /\ res.val.kvp.v.Value.Spec.Types = <<PolicyTypeIngress>>


\* ---- the order of the rules of a policy

PortHttpTCP == [Port |-> Some([Type |-> "String", StrVal |-> PortHttp]), Protocol |-> Some("TCP")]

\* Blocks with more than one port or peer, all different: 2 ports and 2
\* peers, 1 port and 2 peers, 2 ports and 1 peer.
OrderBlocks ==
    {[Peers |-> <<PodPeer(SelWeb), IPBlockPeer(Cidr_10_8, <<Cidr_10_1_16>>)>>,
      Ports |-> <<Port80, PortUDP>>],
     [Peers |-> <<IPBlockPeer(Cidr_192_168_1_7_24, <<>>), PodPeer(SelTier)>>,
      Ports |-> <<PortUDP>>],
     [Peers |-> <<NamespacePeer(SelWeb)>>,
      Ports |-> <<PortHttpTCP, Port80>>]}

InitRuleOrder ==
    /\ arg \in {[np |-> [Name |-> "np1", Namespace |-> "default", ResourceVersion |-> "1",
                         Spec |-> [PodSelector |-> SelEmpty, Ingress |-> i, Egress |-> e,
                                   PolicyTypes |-> <<>>]]] :
                   i \in SeqUpTo(OrderBlocks, MaxBlocks),
                   e \in SeqUpTo(OrderBlocks, MaxBlocks)}
    /\ res = Pending
    /\ heap = <<>>
    /\ nodes = <<>>

SpecRuleOrder == InitRuleOrder /\ [][NextPolicy]_vars

\* What a rule holds of a peer, and of a port.
C15_PeerPart(e) ==
    [Selector |-> e.Selector, NamespaceSelector |-> e.NamespaceSelector,
     Nets |-> e.Nets, NotNets |-> e.NotNets]

C15_PeerOf(peer, ns) ==
    LET g == k8sPeerToCalicoFields(Some(peer), ns) IN
    [Selector |-> g.selector, NamespaceSelector |-> g.nsSelector,
     Nets |-> g.nets, NotNets |-> g.notNets]

C15_PortsOf(port) == k8sPortToCalicoFields(Some(NormalizePort(port))).dstPorts

\* rule is the rule of this port and this peer, of an ingress block or of an
\* egress block.
C15_RuleIsOf(rule, port, peer, ns, ingress) ==
    IF ingress
    THEN /\ C15_PeerPart(rule.Source) = C15_PeerOf(peer, ns)
         /\ rule.Source.Ports = <<>>
         /\ C15_PeerPart(rule.Destination) = C15_PeerPart(ZeroEntityRule)
         /\ rule.Destination.Ports = C15_PortsOf(port)
    ELSE /\ rule.Source = ZeroEntityRule
         /\ C15_PeerPart(rule.Destination) = C15_PeerOf(peer, ns)
         /\ rule.Destination.Ports = C15_PortsOf(port)

\* The index in the rule list of the first rule of block b, less one.
RECURSIVE C15_Offset(_, _)
C15_Offset(blocks, b) ==
    IF b = 1 THEN 0
    ELSE C15_Offset(blocks, b - 1) + Len(blocks[b - 1].Ports) * Len(blocks[b - 1].Peers)

C15_InOrder(rules, blocks, ns, ingress) ==
    /\ Len(rules) = C15_Offset(blocks, Len(blocks) + 1)
    /\ \A b \in 1..Len(blocks) :
           LET q == Len(blocks[b].Peers) IN
           \A i \in 1..Len(blocks[b].Ports), j \in 1..q :
               C15_RuleIsOf(rules[C15_Offset(blocks, b) + (i - 1) * q + j],
                            blocks[b].Ports[i], blocks[b].Peers[j], ns, ingress)

\* C15: in a block with p >= 1 ports and q >= 1 peers the rule at index
\* i*q + j (from 0) is the rule of port i and peer j; the ingress rules are
\* the rules of the ingress blocks in block order, the egress rules those of
\* the egress blocks; an ingress rule has the peer in its source and only
\* the ports in its destination, an egress rule has peer and ports in its
\* destination and an empty source.
C15_RuleOrder ==
    (res.done /\ ~res.panic) =>
        /\ ~res.val.kvp.nil
        /\ C15_InOrder(res.val.kvp.v.Value.Spec.IngressRules,
                       arg.np.Spec.Ingress, arg.np.Namespace, TRUE)
        /\ C15_InOrder(res.val.kvp.v.Value.Spec.EgressRules,
                       arg.np.Spec.Egress, arg.np.Namespace, FALSE)

C15_Witness ==
    /\ res.done /\ ~res.panic
    /\ Len(arg.np.Spec.Ingress) = 2
    /\ Len(arg.np.Spec.Ingress[1].Ports) = 2 /\ Len(arg.np.Spec.Ingress[1].Peers) = 2
    /\ Len(arg.np.Spec.Ingress[2].Ports) = 1 /\ Len(arg.np.Spec.Ingress[2].Peers) = 2
    /\ Len(arg.np.Spec.Egress) = 2
    /\ arg.np.Spec.Egress[1] # arg.np.Spec.Egress[2]
    /\ LET rules == res.val.kvp.v.Value.Spec.IngressRules IN
       /\ Len(rules) = 6
       /\ rules[2].Source.Nets # <<>> /\ rules[2].Destination.Ports # <<>>
       /\ rules[3].Source.Selector # "" /\ rules[3].Destination.Ports = <<>>
       /\ rules[5].Source.Nets # rules[2].Source.Nets
    /\ LET rules == res.val.kvp.v.Value.Spec.EgressRules IN
       /\ Len(rules) > 2
       /\ rules[1].Source = ZeroEntityRule
       /\ C15_PeerPart(rules[1].Destination) # C15_PeerPart(ZeroEntityRule)

\* ---- PodToWorkloadEndpoint

PodLabelKeys == {"app", LabelNamespace}
PodLabelValues == {"web", "other"}
PodLabelMaps == UNION {[D -> PodLabelValues] : D \in SUBSET PodLabelKeys}

PodIP_10_0_0_5 == <<"1", "0", ".", "0", ".", "0", ".", "5">>
PodIP_Malformed == <<"1", "0", ".", "0", ".", "0", ".">>
PodIPs == {<<>>, PodIP_10_0_0_5, PodIP_Malformed}

\* Container ports: a named TCP port, an unnamed one, a named UDP one, one
\* of another protocol, one with number 0, one with no protocol.
ContainerLists ==
    {<<>>,
     <<[Ports |-> <<[Name |-> "http", ContainerPort |-> 80, Protocol |-> "TCP"],
                    [Name |-> "", ContainerPort |-> 81, Protocol |-> "TCP"]>>],
       [Ports |-> <<[Name |-> "dns", ContainerPort |-> 53, Protocol |-> "UDP"],
                    [Name |-> "sctp", ContainerPort |-> 9, Protocol |-> "SCTP"],
                    [Name |-> "zero", ContainerPort |-> 0, Protocol |-> "TCP"],
                    [Name |-> "web", ContainerPort |-> 8080, Protocol |-> ""]>>]>>}

\* A pod and the heap that holds its label map, if it has one.
InitPod ==
    /\ \E labels \in {Nil} \cup {Some(m) : m \in PodLabelMaps},
          namespace \in Namespaces, nodeName \in {"node1", ""},
          ip \in PodIPs, containers \in ContainerLists :
          /\ heap = IF labels.nil THEN <<>> ELSE <<labels.v>>
          /\ arg = [pod |-> [Name |-> "pod1", Namespace |-> namespace, ResourceVersion |-> "1",
                             Labels |-> IF labels.nil THEN Nil ELSE Some(1),
                             Spec |-> [NodeName |-> nodeName, HostNetwork |-> FALSE,
                                       Containers |-> containers],
                             Status |-> [PodIP |-> ip]]]
    /\ res = Pending
    /\ nodes = <<>>

PodToWEP ==
    /\ res = Pending
    /\ LET r == PodToWorkloadEndpoint(arg.pod, heap) IN
       /\ res' = Returned([kvp |-> r.kvp, err |-> r.err])
       /\ heap' = r.heap
    /\ UNCHANGED <<arg, nodes>>

NextPod == PodToWEP

SpecPod == InitPod /\ [][NextPod]_vars

\* C7: PodToWorkloadEndpoint leaves the pod's own label map as it was, and
\* the labels of the endpoint it returns are another map object than the
\* pod's.
C7_PodLabelsUntouched ==
    [][(~res.done /\ res'.done /\ ~arg.pod.Labels.nil) =>
           /\ heap'[arg.pod.Labels.v] = heap[arg.pod.Labels.v]
           /\ (~res'.val.kvp.nil => res'.val.kvp.v.Value.Labels # arg.pod.Labels.v)]_vars

\* The canonical CIDR of a pod address: the address itself as a /32
\* network, or the network of a CIDR text.
C11_CanonicalCIDR(s) ==
    IF ~ParseCIDR(s).err THEN NormalizedCIDR(s)
    ELSE IPString(ParseIPv4(s).v) \o <<"/", "3", "2">>

C11_Parseable(s) == ~ParseCIDR(s).err \/ ~ParseIPv4(s).nil

\* C11: for a pod scheduled to a node, PodToWorkloadEndpoint succeeds with
\* no ipNetworks when the pod has no address, succeeds with the canonical
\* CIDR of the address as the only entry when the address parses, and
\* returns a failure and no endpoint when it does not parse.
C11_IPNetworks ==
    (res.done /\ IsScheduled(arg.pod)) =>
        LET ip == arg.pod.Status.PodIP IN
        /\ ~res.panic
        /\ (ip = <<>>) =>
               /\ res.val.err.nil /\ ~res.val.kvp.nil
               /\ res.val.kvp.v.Value.Spec.IPNetworks = <<>>
        /\ (ip # <<>> /\ C11_Parseable(ip)) =>
               /\ res.val.err.nil /\ ~res.val.kvp.nil
               /\ res.val.kvp.v.Value.Spec.IPNetworks = <<C11_CanonicalCIDR(ip)>>
        /\ (ip # <<>> /\ ~C11_Parseable(ip)) =>
               /\ ~res.val.err.nil /\ res.val.kvp.nil

C11_Witness ==
    /\ res.done
    /\ IsScheduled(arg.pod)
    /\ arg.pod.Status.PodIP = PodIP_10_0_0_5
    /\ ~res.val.kvp.nil
    /\ res.val.kvp.v.Value.Spec.IPNetworks
           = <<<<"1", "0", ".", "0", ".", "0", ".", "5", "/", "3", "2">>>>

\* ---- NamespaceToProfile and ProfileNameToNamespace

\* Namespace names: the empty name, short names, and names that are or
\* begin like the profile prefix.
NamespaceNames ==
    {<<>>, <<"a">>, <<"d", "e", "v">>, <<"k", "n", "s">>, <<"k", "n", "s", ".">>}

NamespaceLabelKeys == {"name", "env"}
NamespaceLabelValues == {"prod", "dev"}
NamespaceLabelMaps ==
    UNION {[D -> NamespaceLabelValues] : D \in SUBSET NamespaceLabelKeys}

NamespaceObjects ==
    {[Name |-> n, Labels |-> l, ResourceVersion |-> rv,
      CreationTimestamp |-> "t0", UID |-> "uid1"] :
        n \in NamespaceNames, l \in NamespaceLabelMaps, rv \in {"1", "2"}}

\* Profile names not made by NamespaceToProfile: without the prefix, with a
\* part of it, with it in another case or place, and the prefix alone.
OtherProfileNames ==
    {<<>>, <<"k", "n", "s">>, <<"n", "s", ".", "a">>, <<"K", "n", "s", ".", "a">>,
     <<"x", "k", "n", "s", ".", "a">>, <<"d", "e", "v">>, <<"k", "n", "s", ".">>}

InitProfile ==
    /\ arg \in {[ns |-> ns] : ns \in NamespaceObjects}
    /\ res = Pending
    /\ heap = <<>>
    /\ nodes = <<>>

ConvertNamespace ==
    /\ res = Pending
    /\ res' = Returned(NamespaceToProfile(arg.ns))
    /\ UNCHANGED <<arg, heap, nodes>>

\* ProfileNameToNamespace on the name of the profile just made.
ExtractNamespace ==
    /\ res.done
    /\ "profileName" \notin DOMAIN arg
    /\ arg' = [ns |-> arg.ns, profileName |-> res.val.kvp.v.Key.Name,
               from |-> res.val.kvp]
    /\ res' = Returned(ProfileNameToNamespace(res.val.kvp.v.Key.Name))
    /\ UNCHANGED <<heap, nodes>>

\* ProfileNameToNamespace on any other name.
ExtractNamespaceOfOther ==
    /\ res.done
    /\ "profileName" \notin DOMAIN arg
    /\ \E name \in OtherProfileNames :
           /\ arg' = [ns |-> arg.ns, profileName |-> name, from |-> Nil]
           /\ res' = Returned(ProfileNameToNamespace(name))
    /\ UNCHANGED <<heap, nodes>>

NextProfile == ConvertNamespace \/ ExtractNamespace \/ ExtractNamespaceOfOther

SpecProfile == InitProfile /\ [][NextProfile]_vars

\* C12: NamespaceToProfile never fails; the profile is named prefix +
\* namespace name, its labelsToApply holds prefix+k -> v for each namespace
\* label k -> v and nothing else, and its ingress and egress rules are one
\* unconditional allow each.  ProfileNameToNamespace gives the namespace
\* name back from that profile name, and an error for a name without the
\* prefix.
C12_NamespaceProfile ==
    /\ (res.done /\ "profileName" \notin DOMAIN arg) =>
           /\ ~res.panic
           /\ res.val.err.nil /\ ~res.val.kvp.nil
           /\ LET kvp == res.val.kvp.v
                  labels == kvp.Value.Spec.LabelsToApply
              IN  /\ kvp.Key.Name = NamespaceProfileNamePrefixChars \o arg.ns.Name
                  /\ kvp.Value.Name = kvp.Key.Name
                  /\ DOMAIN labels = {NamespaceLabelPrefix \o k : k \in DOMAIN arg.ns.Labels}
                  /\ Cardinality(DOMAIN labels) = Cardinality(DOMAIN arg.ns.Labels)
                  /\ \A k \in DOMAIN arg.ns.Labels :
                         labels[NamespaceLabelPrefix \o k] = arg.ns.Labels[k]
                  /\ kvp.Value.Spec.IngressRules = <<AllowRule>>
                  /\ kvp.Value.Spec.EgressRules = <<AllowRule>>
    /\ (res.done /\ "profileName" \in DOMAIN arg) =>
           /\ ~arg.from.nil =>
                  /\ res.val.err.nil
                  /\ res.val.name = arg.ns.Name
           /\ (Len(arg.profileName) < 4
                 \/ SubSeq(arg.profileName, 1, 4) # <<"k", "n", "s", ".">>) =>
                  ~res.val.err.nil

C12_Witness ==
    /\ res.done
    /\ "profileName" \in DOMAIN arg
    /\ ~arg.from.nil
    /\ Cardinality(DOMAIN arg.ns.Labels) = 2
    /\ Cardinality(DOMAIN arg.from.v.Value.Spec.LabelsToApply) = 2
    /\ arg.ns.Name = <<"k", "n", "s", ".">>
    /\ arg.profileName = <<"k", "n", "s", ".", "k", "n", "s", ".">>
    /\ res.val.name = arg.ns.Name


\* ---- the node client

MaxRevision == 3

Hostnames == {"n1", "n2"}

NodeIPs == {<<10, 0, 0, 1>>, <<192, 168, 1, 7>>}
PrefixLengths == {0, 8, 24}
ASNumbers == {Nil, Some(64512), Some(65001)}
NodeLabelMaps == {<<>>, [k \in {"rack"} |-> "r1"]}

\* The network of address ip under a prefix length, as net.ParseCIDR gives it.
NetworkOf(ip, ones) == [IP |-> MaskIP(ip, CIDRMask(ones)), Mask |-> CIDRMask(ones)]

\* Calico nodes: with a BGP address and its network, or with neither.
CalicoNodes ==
    {[FelixIPv4 |-> Some(ip), BGPIPv4Addr |-> Some(ip), BGPIPv4Net |-> Some(NetworkOf(ip, n)),
      BGPASNumber |-> asn, Labels |-> l] :
        ip \in NodeIPs, n \in PrefixLengths, asn \in ASNumbers, l \in NodeLabelMaps}
    \cup {[FelixIPv4 |-> Nil, BGPIPv4Addr |-> Nil, BGPIPv4Net |-> Nil,
           BGPASNumber |-> Nil, Labels |-> <<>>]}

NodeKVPs == {[Key |-> [Hostname |-> h], Value |-> v] : h \in Hostnames, v \in CalicoNodes}

Annotation_10_0_0_1_24 == <<"1", "0", ".", "0", ".", "0", ".", "1", "/", "2", "4">>
Annotation_64512 == <<"6", "4", "5", "1", "2">>

\* The annotations node n1 starts with: none of Calico's, or those of an
\* earlier writer.
InitialAnnotations ==
    {<<>>,
     [k \in {AnnotationIPv4Address} |-> Annotation_10_0_0_1_24],
     [k \in {AnnotationIPv4Address, AnnotationASNumber} |->
         IF k = AnnotationIPv4Address THEN Annotation_10_0_0_1_24 ELSE Annotation_64512]}

\* The datastore holds node n1; there is no node n2.  A node read from
\* the datastore has its Annotations and Labels maps allocated.
InitNode ==
    /\ \E a \in InitialAnnotations :
          nodes = [h \in {"n1"} |->
                      [Name |-> h, ResourceVersion |-> 1, Annotations |-> a, Labels |-> <<>>]]
    /\ arg = [op |-> "none"]
    /\ res = Pending
    /\ heap = <<>>

Update ==
    \E kvp \in NodeKVPs :
        /\ \A h \in DOMAIN nodes : nodes[h].ResourceVersion < MaxRevision
        /\ LET r == NodeClientUpdate(kvp, nodes) IN
           /\ arg' = [op |-> "Update", kvp |-> kvp]
           /\ res' = IF r.panic THEN Panicked ELSE Returned([kvp |-> r.kvp, err |-> r.err])
           /\ nodes' = r.store
        /\ UNCHANGED heap

Get ==
    \E h \in Hostnames :
        /\ LET r == NodeClientGet([Hostname |-> h], nodes) IN
           /\ arg' = [op |-> "Get", key |-> [Hostname |-> h]]
           /\ res' = IF r.panic THEN Panicked ELSE Returned([kvp |-> r.kvp, err |-> r.err])
        /\ UNCHANGED <<heap, nodes>>

Apply ==
    \E kvp \in NodeKVPs :
        /\ \A h \in DOMAIN nodes : nodes[h].ResourceVersion < MaxRevision
        /\ \E r \in {NodeClientApply(kvp, nodes)} :
           /\ arg' = [op |-> "Apply", kvp |-> kvp]
           /\ res' = IF r.panic THEN Panicked ELSE Returned([kvp |-> r.kvp, err |-> r.err])
           /\ nodes' = r.store
        /\ UNCHANGED heap

\* Create and Delete do not look into the node they are given: they are
\* called with the nodes that have a /24 network or none, for both hostnames.
UnsupportedKVPs ==
    {kvp \in NodeKVPs :
        /\ kvp.Value.Labels = <<>>
        /\ kvp.Value.BGPASNumber.nil
        /\ (kvp.Value.BGPIPv4Net.nil \/ kvp.Value.BGPIPv4Net.v.Mask = CIDRMask(24))}

Create ==
    \E kvp \in UnsupportedKVPs :
        /\ LET r == NodeClientCreate(kvp, nodes) IN
           /\ arg' = [op |-> "Create", kvp |-> kvp]
           /\ res' = Returned([kvp |-> r.kvp, err |-> r.err])
           /\ nodes' = r.store
        /\ UNCHANGED heap

Delete ==
    \E kvp \in UnsupportedKVPs :
        /\ LET r == NodeClientDelete(kvp, nodes) IN
           /\ arg' = [op |-> "Delete", kvp |-> kvp]
           /\ res' = Returned([kvp |-> r.kvp, err |-> r.err])
           /\ nodes' = r.store
        /\ UNCHANGED heap

NextNode == Update \/ Get \/ Apply \/ Create \/ Delete

SpecNode == InitNode /\ [][NextNode]_vars

\* C10: an Update of an existing node with a Calico node that has a BGP
\* IPv4 address and network succeeds, the annotation it wrote parses, and
\* the node it returns has that address, host bits included, and that
\* network.
C10_NodeRoundTrip ==
    (/\ res.done
     /\ arg.op = "Update"
     /\ arg.kvp.Key.Hostname \in DOMAIN nodes
     /\ ~arg.kvp.Value.BGPIPv4Addr.nil
     /\ ~arg.kvp.Value.BGPIPv4Net.nil) =>
        /\ ~res.panic
        /\ res.val.err.nil
        /\ ~res.val.kvp.nil
        /\ ~ParseCIDR(nodes[arg.kvp.Key.Hostname].Annotations[AnnotationIPv4Address]).err
        /\ res.val.kvp.v.Value.BGPIPv4Addr = arg.kvp.Value.BGPIPv4Addr
        /\ res.val.kvp.v.Value.BGPIPv4Net = arg.kvp.Value.BGPIPv4Net

\* What the code does instead for every prefix length but 0: the mask is
\* written in hexadecimal, which ParseCIDR does not take for a prefix
\* length, and Update returns that parse error after storing the node.
C10_HexMaskFailsToParse ==
    (/\ res.done
     /\ arg.op = "Update"
     /\ arg.kvp.Key.Hostname \in DOMAIN nodes
     /\ ~arg.kvp.Value.BGPIPv4Net.nil
     /\ SimpleMaskLength(arg.kvp.Value.BGPIPv4Net.v.Mask) > 0) =>
        /\ ~res.panic
        /\ res.val.err = Some("ParseCIDR")
        /\ nodes[arg.kvp.Key.Hostname].Annotations[AnnotationIPv4Address]
               = IPString(arg.kvp.Value.BGPIPv4Addr.v) \o <<"/">>
                 \o IPMaskString(arg.kvp.Value.BGPIPv4Net.v.Mask)

\* C13: a Get that follows a successful Update of an existing node returns
\* the AS number of that Update; after an Update with no AS number it
\* returns no AS number.
C13_GetReturnsLastUpdate ==
    [][(/\ res.done /\ ~res.panic
        /\ arg.op = "Update"
        /\ res.val.err.nil
        /\ arg'.op = "Get"
        /\ arg'.key = arg.kvp.Key)
       => (/\ res'.done /\ ~res'.panic
           /\ res'.val.err.nil
           /\ res'.val.kvp.v.Value.BGPASNumber = arg.kvp.Value.BGPASNumber)]_vars

\* A node without the AS number annotation converts to no AS number.
C13_NoAnnotationGivesNil ==
    (/\ res.done /\ ~res.panic
     /\ arg.op = "Get"
     /\ res.val.err.nil
     /\ AnnotationASNumber \notin DOMAIN nodes[arg.key.Hostname].Annotations)
    => res.val.kvp.v.Value.BGPASNumber = Nil

\* C14: Apply on a node that is not in the datastore returns no node and
\* the ErrorOperationNotSupported error of Create.
C14_ApplyFallsBackToCreate ==
    (/\ res.done
     /\ arg.op = "Apply"
     /\ arg.kvp.Key.Hostname \notin DOMAIN nodes)
    => (/\ ~res.panic
        /\ res.val.kvp.nil
        /\ res.val.err = Some(ErrorOperationNotSupported("Create")))

\* Apply on a node that is in the datastore returns what Update returns,
\* and writes what Update writes.
C14_ApplyIsUpdateWhenExists ==
    [][(arg'.op = "Apply" /\ arg'.kvp.Key.Hostname \in DOMAIN nodes)
       => LET r == NodeClientUpdate(arg'.kvp, nodes) IN
          /\ res' = IF r.panic THEN Panicked ELSE Returned([kvp |-> r.kvp, err |-> r.err])
          /\ nodes' = r.store]_vars

\* Create and Delete return ErrorOperationNotSupported and leave the
\* datastore as it is.
C14_CreateDeleteNotSupported ==
    [][(arg'.op \in {"Create", "Delete"})
       => (/\ res' = Returned([kvp |-> Nil, err |-> Some(ErrorOperationNotSupported(arg'.op))])
           /\ nodes' = nodes)]_vars

=============================================================================
